---- MODULE Spec2Model ----
(***************************************************************************)
(* Model of the Jarvis voice-assistant backend: the intent-routing         *)
(* orchestrator (backend/app/services/orchestrator.py) together with the   *)
(* calendar tool its handlers call (backend/app/services/calendar_tool.py) *)
(* and the OAuth callback that connects the calendar (api/auth.py).        *)
(*                                                                         *)
(* Conventions                                                             *)
(*  - a Python str is a sequence of one-character strings;                 *)
(*  - a confidence is an integer number of hundredths (0.7 is 70);         *)
(*  - a message is a record [fmt, n, args, times]: the literal or the      *)
(*    f-string template, and the values substituted into it.               *)
(***************************************************************************)
EXTENDS Integers, Sequences, FiniteSets, TLC

(***************************************************************************)
(* Python str operations used by the handlers                              *)
(***************************************************************************)

\* s[i:i+len(p)] == p  (i is 1-based)
MatchAt(s, p, i) ==
    /\ i + Len(p) - 1 <= Len(s)
    /\ \A k \in 1..Len(p) : s[i + k - 1] = p[k]

\* str.replace(old, ""), old non-empty: left-to-right, non-overlapping
RECURSIVE RemoveFrom(_, _, _)
RemoveFrom(s, old, i) ==
    IF i > Len(s) THEN <<>>
    ELSE IF MatchAt(s, old, i) THEN RemoveFrom(s, old, i + Len(old))
    ELSE <<s[i]>> \o RemoveFrom(s, old, i + 1)

Remove(s, old) == RemoveFrom(s, old, 1)

\* str.strip(): drop leading and trailing whitespace
RECURSIVE LStrip(_)
LStrip(s) == IF s # <<>> /\ Head(s) = " " THEN LStrip(Tail(s)) ELSE s

RECURSIVE RStrip(_)
RStrip(s) ==
    IF s # <<>> /\ s[Len(s)] = " " THEN RStrip(SubSeq(s, 1, Len(s) - 1)) ELSE s

Strip(s) == RStrip(LStrip(s))

\* str.lower() on the letters the model uses
LowerChar(c) ==
    CASE c = "A" -> "a"
      [] c = "B" -> "b"
      [] c = "G" -> "g"
      [] OTHER   -> c

Lower(s) == [i \in 1..Len(s) |-> LowerChar(s[i])]

\* sub in s
Contains(s, sub) == \E i \in 1..(Len(s) + 1) : MatchAt(s, sub, i)

\* message values
Lit(text) == [fmt |-> text, n |-> 0, args |-> <<>>, times |-> <<>>]

Fmt(template, count, values, clock) ==
    [fmt |-> template, n |-> count, args |-> values, times |-> clock]

(***************************************************************************)
(* Inputs                                                                  *)
(***************************************************************************)

S_add == <<"a","d","d">>
S_todo == <<"t","o"," ","m","y"," ","t","o","d","o"," ","l","i","s","t">>

\* "" and " add Ab to my todo list": the second has the two substrings
\* _handle_add_task removes, and names the events "Ab" and "B"
Transcripts ==
    { <<>>,
      <<" ">> \o S_add \o <<" ","A","b"," ">> \o S_todo }

Intents ==
    {"GET_WEATHER", "ADD_TASK", "DAILY_SUMMARY", "DELETE_CALENDAR_EVENT",
     "LEARN", "GENERAL_CHAT"}

\* a label the classifier may return that no handler is registered for
UnknownLabels == {"PLAY_MUSIC"}

Labels == Intents \cup UnknownLabels

\* numeric confidences in hundredths, on both sides of the threshold
Confidences == {0, 69, 70, 100}

\* What classify_intent can do: raise, or return a dict.  The dict may lack
\* the "intent" or the "confidence" key (both are read with .get and a
\* default), and "confidence" may hold a value that is not a number.
ClassifierReplies ==
    [raises : {FALSE}, hasIntent : {TRUE}, intent : Labels,
     confKind : {"number"}, conf : Confidences]
    \cup [raises : {FALSE}, hasIntent : {TRUE}, intent : Labels,
          confKind : {"absent", "malformed"}, conf : {0}]
    \cup [raises : {FALSE}, hasIntent : {FALSE}, intent : {"GENERAL_CHAT"},
          confKind : {"number"}, conf : Confidences]
    \cup [raises : {FALSE}, hasIntent : {FALSE}, intent : {"GENERAL_CHAT"},
          confKind : {"absent", "malformed"}, conf : {0}]

ClassifierFailure ==
    [raises |-> TRUE, hasIntent |-> FALSE, intent |-> "GENERAL_CHAT",
     confKind |-> "absent", conf |-> 0]

ClassifierOutcomes == ClassifierReplies \cup {ClassifierFailure}

\* chunks of the text-generation stream
UpstreamChunks == {Lit("Hello"), Lit(" there")}

\* longest upstream stream explored
MaxChunks == 2

(***************************************************************************)
(* Calendar: the events Google holds for today, as events().list returns   *)
(* them (ordered by start time); a key may be missing from an item.        *)
(***************************************************************************)

S_untitled ==
    <<"U","n","t","i","t","l","e","d"," ","E","v","e","n","t">>

RawB   == [id |-> "e1", hasSummary |-> TRUE, summary |-> <<"B">>,
           start |-> "dateTime", location |-> "room"]
RawAb  == [id |-> "e2", hasSummary |-> TRUE, summary |-> <<"A","b">>,
           start |-> "date", location |-> ""]
RawGym == [id |-> "e3", hasSummary |-> FALSE, summary |-> <<>>,
           start |-> "", location |-> ""]

RemoteCalendars == { <<>>, <<RawGym, RawAb, RawB>> }

\* instants of the wall clock, in seconds
Instants == {0, 300}

\* an event whose summary is present and empty
RawEmpty == [id |-> "e4", hasSummary |-> TRUE, summary |-> <<>>,
             start |-> "dateTime", location |-> ""]

\* the calendars of the calendar specification: in the last one the first
\* event has an empty summary and "B" is listed before "Ab"
CalRemoteCalendars == RemoteCalendars \cup { <<RawEmpty, RawB, RawAb>> }

\* the instants of the calendar specification, around the cache lifetime
CalInstants == {0, 299, 300, 599}

\* what Google's API does during one request: whether build('calendar',
\* 'v3', ...) in CalendarTool.__init__ succeeds, and whether
\* events().list().execute() does
ApiOutcomes == [buildOk : BOOLEAN, listOk : BOOLEAN]

(***************************************************************************)
(* CalendarTool (calendar_tool.py)                                         *)
(***************************************************************************)

CacheTTL == 300

\* get_calendar_tool() has not been called yet
NoTool ==
    [created |-> FALSE, service |-> FALSE, cached |-> FALSE,
     events |-> <<>>, ts |-> 0]

\* CalendarTool.__init__: the service is built only when the token file
\* holds valid credentials at construction time
NewCalendarTool(token) ==
    [created |-> TRUE, service |-> (token = "valid"), cached |-> FALSE,
     events |-> <<>>, ts |-> 0]

\* get_calendar_tool is lru_cache'd: one instance per process
get_calendar_tool(tl, token) ==
    IF tl.created THEN tl ELSE NewCalendarTool(token)

\* the first get_calendar_tool() raises when build() fails; build() is only
\* called with valid credentials, and lru_cache keeps nothing of a call
\* that raised
ConstructorRaises(tl, token, api) ==
    ~tl.created /\ token = "valid" /\ ~api.buildOk

\* variant: an entry of exactly the lifetime still counts as valid
_is_cache_validInclusive(tl, clock) ==
    IF ~tl.cached THEN FALSE ELSE (clock - tl.ts) <= CacheTTL

_is_cache_valid(tl, clock) ==
    IF ~tl.cached THEN FALSE ELSE (clock - tl.ts) < CacheTTL

StartString(kind) ==
    CASE kind = "dateTime" -> "2025-12-19T10:00:00Z"
      [] kind = "date"     -> "2025-12-19"
      [] OTHER             -> ""

\* the simplified event built in get_today_events
SimplifyEvent(raw) ==
    [id |-> raw.id,
     summary |-> IF raw.hasSummary THEN raw.summary ELSE S_untitled,
     start |-> StartString(raw.start),
     end |-> StartString(raw.start),
     location |-> raw.location]

SimplifyEvents(items) == [i \in 1..Len(items) |-> SimplifyEvent(items[i])]

\* variant: a failed API call caches the empty list
get_today_eventsCachingFailure(tl, clock, items, apiOk) ==
    IF _is_cache_valid(tl, clock) THEN [events |-> tl.events, tool |-> tl]
    ELSE IF ~tl.service THEN [events |-> <<>>, tool |-> tl]
    ELSE IF apiOk
         THEN LET simplified == SimplifyEvents(items)
              IN [events |-> simplified,
                  tool |-> [tl EXCEPT !.events = simplified,
                                      !.cached = TRUE,
                                      !.ts = clock]]
         ELSE [events |-> <<>>,
               tool |-> [tl EXCEPT !.events = <<>>,
                                   !.cached = TRUE,
                                   !.ts = clock]]

\* variant: a failed API call falls back to the expired cache
get_today_eventsStale(tl, clock, items, apiOk) ==
    IF _is_cache_valid(tl, clock) THEN [events |-> tl.events, tool |-> tl]
    ELSE IF ~tl.service THEN [events |-> <<>>, tool |-> tl]
    ELSE IF apiOk
         THEN LET simplified == SimplifyEvents(items)
              IN [events |-> simplified,
                  tool |-> [tl EXCEPT !.events = simplified,
                                      !.cached = TRUE,
                                      !.ts = clock]]
         ELSE [events |-> tl.events, tool |-> tl]

\* get_today_events: [events, tool] = the returned list and the tool after
\* the call; apiOk says whether events().list().execute() succeeds
get_today_events(tl, clock, items, apiOk) ==
    IF _is_cache_valid(tl, clock) THEN [events |-> tl.events, tool |-> tl]
    ELSE IF ~tl.service THEN [events |-> <<>>, tool |-> tl]
    ELSE IF apiOk
         THEN LET simplified == SimplifyEvents(items)
              IN [events |-> simplified,
                  tool |-> [tl EXCEPT !.events = simplified,
                                      !.cached = TRUE,
                                      !.ts = clock]]
         ELSE [events |-> <<>>, tool |-> tl]

TimeStr(start) ==
    CASE start = ""                     -> "unknown time"
      [] start = "2025-12-19T10:00:00Z" -> "10:00 AM"
      [] OTHER                          -> "all day"

summarize_events(events) ==
    IF events = <<>> THEN Lit("You have no events scheduled for today.")
    ELSE Fmt(IF Len(events) = 1 THEN "You have 1 event today: {descriptions}."
             ELSE "You have {n} events today: {descriptions}.",
             Len(events),
             [i \in 1..Len(events) |-> events[i].summary],
             [i \in 1..Len(events) |-> TimeStr(events[i].start)])

(***************************************************************************)
(* Handlers (orchestrator.py).  Each returns [resp, tool]: the response    *)
(* dict and the calendar tool after the call.                              *)
(***************************************************************************)

_handle_get_weather(t, tl) ==
    [resp |-> [type |-> "weather",
               data |-> [location |-> "San Francisco", temperature |-> 72],
               message |-> Lit("It's currently 72F and sunny in San Francisco with light winds.")],
     tool |-> tl]

_handle_add_task(t, tl) ==
    LET task_text == Strip(Remove(Remove(t, S_add), S_todo))
    IN [resp |-> [type |-> "task",
                  data |-> [task_id |-> "mock_task_123",
                            task_text |-> task_text,
                            status |-> "pending"],
                  message |-> Fmt("I've added '{task_text}' to your task list.",
                                  0, <<task_text>>, <<>>)],
        tool |-> tl]

_get_mock_daily_summary ==
    [type |-> "summary",
     data |-> [date |-> "2025-12-19", tasks_completed |-> 5,
               tasks_pending |-> 3, meetings_attended |-> 2,
               source |-> "mock_data"],
     message |-> Lit("Today you completed 5 tasks and attended 2 meetings. Great progress!")]

\* variant: the mock summary is used only when the calendar raised
_handle_daily_summaryNoEmptyFallback(t, tl, token, clock, items, api) ==
    LET calendar_tool == get_calendar_tool(tl, token)
        got == get_today_events(calendar_tool, clock, items, api.listOk)
    IN IF ConstructorRaises(tl, token, api)
       THEN [resp |-> _get_mock_daily_summary, tool |-> tl]
       ELSE [resp |-> [type |-> "summary",
                       data |-> [date |-> "2025-12-19",
                                 events |-> got.events,
                                 event_count |-> Len(got.events),
                                 source |-> "google_calendar"],
                       message |-> summarize_events(got.events)],
             tool |-> got.tool]

_handle_daily_summary(t, tl, token, clock, items, api) ==
    LET calendar_tool == get_calendar_tool(tl, token)
        got == get_today_events(calendar_tool, clock, items, api.listOk)
    IN IF ConstructorRaises(tl, token, api)
       THEN [resp |-> _get_mock_daily_summary, tool |-> tl]
       ELSE IF got.events # <<>>
       THEN [resp |-> [type |-> "summary",
                       data |-> [date |-> "2025-12-19",
                                 events |-> got.events,
                                 event_count |-> Len(got.events),
                                 source |-> "google_calendar"],
                       message |-> summarize_events(got.events)],
             tool |-> got.tool]
       ELSE [resp |-> _get_mock_daily_summary, tool |-> got.tool]

\* variant: the last matching event instead of the first
MatchingEventLast(events, t) ==
    LET hits == {i \in 1..Len(events) :
                    /\ Lower(events[i].summary) # <<>>
                    /\ Contains(Lower(t), Lower(events[i].summary))}
    IN IF hits = {} THEN 0 ELSE CHOOSE i \in hits : \A j \in hits : i >= j

\* index of the first event whose lowercase summary is non-empty and occurs
\* in the lowercase transcript; 0 when there is none
MatchingEvent(events, t) ==
    LET hits == {i \in 1..Len(events) :
                    /\ Lower(events[i].summary) # <<>>
                    /\ Contains(Lower(t), Lower(events[i].summary))}
    IN IF hits = {} THEN 0 ELSE CHOOSE i \in hits : \A j \in hits : i <= j

\* variant: the except branch answers with a response of another type
_handle_delete_calendar_eventRaising(t, tl, token, clock, items, api) ==
    LET calendar_tool == get_calendar_tool(tl, token)
        got == get_today_events(calendar_tool, clock, items, api.listOk)
        m == MatchingEvent(got.events, t)
    IN IF ConstructorRaises(tl, token, api)
       THEN [resp |-> [type |-> "error",
                       data |-> [error |-> "build failed"],
                       message |-> Lit("I had trouble deleting that event. Please try again.")],
             tool |-> tl]
       ELSE IF got.events = <<>>
       THEN [resp |-> [type |-> "calendar_delete",
                       data |-> [error |-> "No events found"],
                       message |-> Lit("You don't have any events today to delete.")],
             tool |-> got.tool]
       ELSE IF m = 0
       THEN [resp |-> [type |-> "calendar_delete",
                       data |-> [available_events |->
                                   [i \in 1..Len(got.events) |-> got.events[i].summary]],
                       message |-> Fmt("I couldn't find that event. You have: {names}.",
                                       0,
                                       [i \in 1..Len(got.events) |-> got.events[i].summary],
                                       <<>>)],
             tool |-> got.tool]
       ELSE [resp |-> [type |-> "error",
                       data |-> [error |-> "'CalendarTool' object has no attribute 'delete_event'"],
                       message |-> Lit("I had trouble deleting that event. Please try again.")],
             tool |-> got.tool]

\* CalendarTool defines no delete_event: the call at the end of the handler
\* raises AttributeError, which the handler's own except turns into the
\* "trouble deleting" response, as it does a raise of get_calendar_tool().
_handle_delete_calendar_event(t, tl, token, clock, items, api) ==
    LET calendar_tool == get_calendar_tool(tl, token)
        got == get_today_events(calendar_tool, clock, items, api.listOk)
        m == MatchingEvent(got.events, t)
    IN IF ConstructorRaises(tl, token, api)
       THEN [resp |-> [type |-> "calendar_delete",
                       data |-> [error |-> "build failed"],
                       message |-> Lit("I had trouble deleting that event. Please try again.")],
             tool |-> tl]
       ELSE IF got.events = <<>>
       THEN [resp |-> [type |-> "calendar_delete",
                       data |-> [error |-> "No events found"],
                       message |-> Lit("You don't have any events today to delete.")],
             tool |-> got.tool]
       ELSE IF m = 0
       THEN [resp |-> [type |-> "calendar_delete",
                       data |-> [available_events |->
                                   [i \in 1..Len(got.events) |-> got.events[i].summary]],
                       message |-> Fmt("I couldn't find that event. You have: {names}.",
                                       0,
                                       [i \in 1..Len(got.events) |-> got.events[i].summary],
                                       <<>>)],
             tool |-> got.tool]
       ELSE [resp |-> [type |-> "calendar_delete",
                       data |-> [error |-> "'CalendarTool' object has no attribute 'delete_event'"],
                       message |-> Lit("I had trouble deleting that event. Please try again.")],
             tool |-> got.tool]

\* the ids with which the handler reaches calendar_tool.delete_event(...)
DeleteEventCalls(t, tl, token, clock, items, api) ==
    LET calendar_tool == get_calendar_tool(tl, token)
        got == get_today_events(calendar_tool, clock, items, api.listOk)
        m == MatchingEvent(got.events, t)
    IN IF ConstructorRaises(tl, token, api) \/ m = 0 THEN <<>>
       ELSE <<got.events[m].id>>

_handle_learn(t, tl) ==
    [resp |-> [type |-> "educational",
               data |-> [topic |-> "General Knowledge"],
               message |-> Lit("Here's what I found about your question. This is a mock response that would contain educational content.")],
     tool |-> tl]

_handle_general_chat(t, tl) ==
    [resp |-> [type |-> "conversation",
               data |-> [response_type |-> "casual", context |-> "general_chat"],
               message |-> Lit("I'm here to help! This is a mock conversational response. How can I assist you today?")],
     tool |-> tl]

(***************************************************************************)
(* OrchestratorService                                                     *)
(***************************************************************************)

\* confidence_threshold = 0.7 in _route_to_handler
ConfidenceThreshold == 70

\* confidence_threshold = 0.7 in process_transcript_stream
StreamConfidenceThreshold == 70

\* intent_result.get("confidence", 0.5)
DefaultConfidence == 50

\* intent_result.get("intent", "GENERAL_CHAT")
ClassifiedIntent(c) == IF c.hasIntent THEN c.intent ELSE "GENERAL_CHAT"

\* variant: a confidence under the threshold is reset to 0.0
ClassifiedConfidenceFloored(c) ==
    IF c.confKind = "absent" THEN DefaultConfidence
    ELSE IF c.conf < ConfidenceThreshold THEN 0 ELSE c.conf

\* the number held by the local variable confidence; a malformed value is
\* never compared or reported as a number (see ComparisonRaises)
ClassifiedConfidence(c) ==
    IF c.confKind = "absent" THEN DefaultConfidence ELSE c.conf

\* confidence < confidence_threshold raises TypeError when the classifier
\* put something that is not a number under "confidence"
ComparisonRaises(c) == c.confKind = "malformed"

\* the handlers dict of _route_to_handler
handlers ==
    [i \in Intents |->
        CASE i = "GET_WEATHER"           -> "_handle_get_weather"
          [] i = "ADD_TASK"              -> "_handle_add_task"
          [] i = "DAILY_SUMMARY"         -> "_handle_daily_summary"
          [] i = "DELETE_CALENDAR_EVENT" -> "_handle_delete_calendar_event"
          [] i = "LEARN"                 -> "_handle_learn"
          [] OTHER                       -> "_handle_general_chat"]

\* variant: the lookup defaults to another handler
HandlerForDefaultLearn(intent) ==
    IF intent \in DOMAIN handlers THEN handlers[intent]
    ELSE "_handle_learn"

\* handlers.get(intent, self._handle_general_chat)
HandlerFor(intent) ==
    IF intent \in DOMAIN handlers THEN handlers[intent]
    ELSE "_handle_general_chat"

\* await handler(transcript)
CallHandler(h, t, tl, token, clock, items, api) ==
    CASE h = "_handle_get_weather"  -> _handle_get_weather(t, tl)
      [] h = "_handle_add_task"     -> _handle_add_task(t, tl)
      [] h = "_handle_daily_summary" ->
            _handle_daily_summary(t, tl, token, clock, items, api)
      [] h = "_handle_delete_calendar_event" ->
            _handle_delete_calendar_event(t, tl, token, clock, items, api)
      [] h = "_handle_learn"        -> _handle_learn(t, tl)
      [] OTHER                      -> _handle_general_chat(t, tl)

\* variant: the threshold itself falls back (<= instead of <)
RouteIntentInclusive(intent, confidence) ==
    IF confidence <= ConfidenceThreshold THEN "GENERAL_CHAT" ELSE intent

\* variant: the threshold is not applied
RouteIntentNoThreshold(intent, confidence) == intent

\* the intent _route_to_handler dispatches on
RouteIntent(intent, confidence) ==
    IF confidence < ConfidenceThreshold THEN "GENERAL_CHAT" ELSE intent

\* _route_to_handler, called with a numeric confidence:
\* [resp, tool, handler], handler being the one that was invoked
_route_to_handler(intent, t, confidence, tl, token, clock, items, api) ==
    LET h == HandlerFor(RouteIntent(intent, confidence))
        r == CallHandler(h, t, tl, token, clock, items, api)
    IN [resp |-> r.resp, tool |-> r.tool, handler |-> h]

\* variant: the except branch reports a sentinel of -1.0
RouteFallbackSentinel(t, tl) ==
    [raised |-> FALSE,
     transcript |-> t,
     intent |-> "GENERAL_CHAT",
     confidence |-> -100,
     handler_response |-> _handle_general_chat(t, tl).resp]

\* variant: the except branch logs and re-raises
RouteFallbackReraises(t, tl) ==
    [raised |-> TRUE,
     transcript |-> t,
     intent |-> "GENERAL_CHAT",
     confidence |-> 0,
     handler_response |-> _handle_general_chat(t, tl).resp]

\* variant: the except branch reports the default confidence
RouteFallbackDefaultConfidence(t, tl) ==
    [raised |-> FALSE,
     transcript |-> t,
     intent |-> "GENERAL_CHAT",
     confidence |-> DefaultConfidence,
     handler_response |-> _handle_general_chat(t, tl).resp]

\* variant: the except branch reports the transcript stripped
RouteFallbackStripped(t, tl) ==
    [raised |-> FALSE,
     transcript |-> Strip(t),
     intent |-> "GENERAL_CHAT",
     confidence |-> 0,
     handler_response |-> _handle_general_chat(t, tl).resp]

\* the except branch of process_transcript
RouteFallback(t, tl) ==
    [raised |-> FALSE,
     transcript |-> t,
     intent |-> "GENERAL_CHAT",
     confidence |-> 0,
     handler_response |-> _handle_general_chat(t, tl).resp]

\* variant: a failed classification is attempted a second time
process_transcriptRetrying(t, c, tl, token, clock, items, api) ==
    IF c.raises
    THEN [result |-> RouteFallback(t, tl), tool |-> tl,
          calls |-> <<"classify_intent", "classify_intent",
                      "_handle_general_chat">>]
    ELSE IF ComparisonRaises(c)
    THEN [result |-> RouteFallback(t, tl), tool |-> tl,
          calls |-> <<"classify_intent", "_route_to_handler",
                      "_handle_general_chat">>]
    ELSE LET intent == ClassifiedIntent(c)
             confidence == ClassifiedConfidence(c)
             routed == _route_to_handler(intent, t, confidence, tl, token,
                                         clock, items, api)
         IN [result |-> [raised |-> FALSE,
                         transcript |-> t,
                         intent |-> intent,
                         confidence |-> confidence,
                         handler_response |-> routed.resp],
             tool |-> routed.tool,
             calls |-> <<"classify_intent", "_route_to_handler",
                         routed.handler>>]

\* process_transcript: [result, tool, calls]; calls lists the classifier
\* and handler invocations in order
process_transcript(t, c, tl, token, clock, items, api) ==
    IF c.raises
    THEN [result |-> RouteFallback(t, tl), tool |-> tl,
          calls |-> <<"classify_intent", "_handle_general_chat">>]
    ELSE IF ComparisonRaises(c)
    THEN [result |-> RouteFallback(t, tl), tool |-> tl,
          calls |-> <<"classify_intent", "_route_to_handler",
                      "_handle_general_chat">>]
    ELSE LET intent == ClassifiedIntent(c)
             confidence == ClassifiedConfidence(c)
             routed == _route_to_handler(intent, t, confidence, tl, token,
                                         clock, items, api)
         IN [result |-> [raised |-> FALSE,
                         transcript |-> t,
                         intent |-> intent,
                         confidence |-> confidence,
                         handler_response |-> routed.resp],
             tool |-> routed.tool,
             calls |-> <<"classify_intent", "_route_to_handler",
                         routed.handler>>]

\* the chunk yielded by the except branch of process_transcript_stream
ApologyText == Lit("I'm having trouble processing that right now.")

\* variant: the apology is tagged with the default confidence
FallbackChunkDefaultConfidence ==
    [text |-> ApologyText, intent |-> "GENERAL_CHAT",
     confidence |-> DefaultConfidence, by |-> "except"]

FallbackChunk ==
    [text |-> ApologyText, intent |-> "GENERAL_CHAT", confidence |-> 0,
     by |-> "except"]

\* the intent process_transcript_stream branches on
StreamIntent(intent, confidence) ==
    IF confidence < StreamConfidenceThreshold THEN "GENERAL_CHAT" ELSE intent

\* variant: only the first word of the answer carries the confidence
UpstreamChunkFirstOnly(c, intent, confidence) ==
    [text |-> c, intent |-> intent,
     confidence |-> IF c = Lit("Hello") THEN confidence ELSE 0,
     by |-> "upstream"]

\* variant: upstream chunks carry the fallback confidence
UpstreamChunkZeroConfidence(c, intent, confidence) ==
    [text |-> c, intent |-> intent, confidence |-> 0, by |-> "upstream"]

\* yield chunk, intent, confidence
UpstreamChunk(c, intent, confidence) ==
    [text |-> c, intent |-> intent, confidence |-> confidence,
     by |-> "upstream"]

\* variant: the response type is yielded instead of the message
HandlerChunkType(resp, intent, confidence) ==
    [text |-> Lit(resp.type), intent |-> intent, confidence |-> confidence,
     by |-> "handler"]

\* yield handler_response["message"], intent, confidence
HandlerChunk(resp, intent, confidence) ==
    [text |-> resp.message, intent |-> intent, confidence |-> confidence,
     by |-> "handler"]

\* handler_response before _route_to_handler has returned
NoResponse == [type |-> "none"]

(***************************************************************************)
(* State                                                                   *)
(***************************************************************************)

VARIABLES
    transcript,   \* the transcript of the request being served
    cls,          \* what classify_intent does for that transcript
    result,       \* what process_transcript returned for it, or NoResult
    routeCalls,   \* classifier / handler invocations of process_transcript
    spc,          \* where process_transcript_stream is suspended
    sIntent,      \* its local variable intent
    sConf,        \* its local variable confidence
    sResp,        \* its local variable handler_response
    chunks,       \* the (chunk, intent, confidence) triples it has yielded
    upstream,     \* what generate_response_stream has produced so far
    upFailed,     \* whether generate_response_stream has raised
    streamCalls,  \* classifier / handler invocations of the stream
    tokenFile,    \* calendar_token.json: "absent" or "valid"
    tool,         \* the CalendarTool singleton
    remote,       \* today's events in Google Calendar
    now,          \* wall clock
    calCall,      \* the last calendar-backed call: its inputs and outcome
    mReady,       \* MemoryService.memory is not None
    mStore,       \* the memories the vector store holds for each user
    mCache,       \* MemoryService._cache
    mCall,        \* the last MemoryService call: its inputs and outcome
    tStore,       \* the tasks the task store holds, in creation order
    tCall         \* the last create_task request: its inputs and outcome

request == <<transcript, cls>>
routeVars == <<result, routeCalls>>
streamVars ==
    <<spc, sIntent, sConf, sResp, chunks, upstream, upFailed, streamCalls>>
calendarVars == <<tokenFile, tool, remote, now>>
memoryVars == <<mReady, mStore, mCache, mCall>>
taskVars == <<tStore, tCall>>
vars ==
    <<request, routeVars, streamVars, calendarVars, calCall, memoryVars,
      taskVars>>

NoResult == [returned |-> FALSE]

\* no call recorded
NoCall == [op |-> "none"]

Users == {"u1", "u2"}

MemoryIds == {"m1", "m2"}

\* MemoryService.__init__: the cache is an empty dict
EmptyCache == [u \in Users |-> [cached |-> FALSE, memories |-> <<>>]]

EmptyStore == [u \in Users |-> <<>>]

Init ==
    /\ transcript \in Transcripts
    /\ cls \in ClassifierOutcomes
    /\ result = NoResult
    /\ routeCalls = <<>>
    /\ spc = "idle"
    /\ sIntent = "GENERAL_CHAT"
    /\ sConf = 0
    /\ sResp = NoResponse
    /\ chunks = <<>>
    /\ upstream = <<>>
    /\ upFailed = FALSE
    /\ streamCalls = <<>>
    /\ tokenFile = "absent"
    /\ tool = NoTool
    /\ remote \in RemoteCalendars
    /\ now = 0
    /\ calCall = NoCall
    /\ mReady = TRUE
    /\ mStore = EmptyStore
    /\ mCache = EmptyCache
    /\ mCall = NoCall
    /\ tStore = <<>>
    /\ tCall = NoCall

(***************************************************************************)
(* Requests                                                                *)
(***************************************************************************)

\* the next transcript arrives, once no stream is in flight; c is what the
\* classifier will do with it
NewRequest(t, c) ==
    /\ spc \in {"idle", "done"}
    /\ transcript' = t
    /\ cls' = c
    /\ result' = NoResult
    /\ routeCalls' = <<>>
    /\ spc' = "idle"
    /\ sIntent' = "GENERAL_CHAT"
    /\ sConf' = 0
    /\ sResp' = NoResponse
    /\ chunks' = <<>>
    /\ upstream' = <<>>
    /\ upFailed' = FALSE
    /\ streamCalls' = <<>>
    /\ UNCHANGED calendarVars
    /\ UNCHANGED <<calCall, memoryVars, taskVars>>

\* await orchestrator.process_transcript(transcript)
ProcessTranscript(api) ==
    /\ result = NoResult
    /\ LET r == process_transcript(transcript, cls, tool, tokenFile, now,
                                   remote, api)
       IN /\ result' = [returned |-> TRUE] @@ r.result
          /\ routeCalls' = r.calls
          /\ tool' = r.tool
    /\ UNCHANGED <<request, streamVars, tokenFile, remote, now>>
    /\ UNCHANGED <<calCall, memoryVars, taskVars>>

(***************************************************************************)
(* process_transcript_stream, one action per run between two suspensions   *)
(*   idle       not started                                                *)
(*   streaming  inside async for, waiting for the upstream stream          *)
(*   last       suspended at a yield after which the generator returns     *)
(*   done       exhausted                                                  *)
(***************************************************************************)

\* first __anext__: classification, threshold and branch
StreamStart(api) ==
    /\ spc = "idle"
    /\ UNCHANGED <<upstream, upFailed>>
    /\ IF cls.raises \/ ComparisonRaises(cls)
       THEN /\ chunks' = <<FallbackChunk>>
            /\ sResp' = sResp
            /\ spc' = "last"
            /\ sIntent' = IF cls.raises THEN sIntent ELSE ClassifiedIntent(cls)
            /\ sConf' = sConf
            /\ streamCalls' = <<"classify_intent">>
            /\ tool' = tool
       ELSE LET confidence == ClassifiedConfidence(cls)
                intent == StreamIntent(ClassifiedIntent(cls), confidence)
            IN /\ sIntent' = intent
               /\ sConf' = confidence
               /\ IF intent = "GENERAL_CHAT"
                  THEN /\ chunks' = <<>>
                       /\ sResp' = sResp
                       /\ spc' = "streaming"
                       /\ streamCalls' = <<"classify_intent",
                                           "generate_response_stream">>
                       /\ tool' = tool
                  ELSE LET routed == _route_to_handler(intent, transcript,
                                         confidence, tool, tokenFile, now,
                                         remote, api)
                       IN /\ sResp' = routed.resp
                          /\ chunks' = <<HandlerChunk(routed.resp, intent,
                                                      confidence)>>
                          /\ spc' = "last"
                          /\ streamCalls' = <<"classify_intent",
                                              "_route_to_handler",
                                              routed.handler>>
                          /\ tool' = routed.tool
    /\ UNCHANGED <<request, routeVars, tokenFile, remote, now>>
    /\ UNCHANGED <<calCall, memoryVars, taskVars>>

\* the upstream stream produces chunk c, which is re-yielded
StreamChunk(c) ==
    /\ spc = "streaming"
    /\ Len(upstream) < MaxChunks
    /\ upstream' = Append(upstream, c)
    /\ chunks' = Append(chunks, UpstreamChunk(c, sIntent, sConf))
    /\ UNCHANGED <<request, routeVars, spc, sIntent, sConf, sResp, upFailed,
                   streamCalls, calendarVars>>
    /\ UNCHANGED <<calCall, memoryVars, taskVars>>

\* the upstream stream ends: the generator returns
StreamEnd ==
    /\ spc = "streaming"
    /\ spc' = "done"
    /\ UNCHANGED <<request, routeVars, sIntent, sConf, sResp, chunks,
                   upstream, upFailed, streamCalls, calendarVars>>
    /\ UNCHANGED <<calCall, memoryVars, taskVars>>

\* the upstream stream raises: the except branch yields the apology
StreamFail ==
    /\ spc = "streaming"
    /\ upFailed' = TRUE
    /\ chunks' = Append(chunks, FallbackChunk)
    /\ spc' = "last"
    /\ UNCHANGED <<request, routeVars, sIntent, sConf, sResp, upstream,
                   streamCalls, calendarVars>>
    /\ UNCHANGED <<calCall, memoryVars, taskVars>>

\* the consumer asks for more after the last yield: the generator returns
StreamResume ==
    /\ spc = "last"
    /\ spc' = "done"
    /\ UNCHANGED <<request, routeVars, sIntent, sConf, sResp, chunks,
                   upstream, upFailed, streamCalls, calendarVars>>
    /\ UNCHANGED <<calCall, memoryVars, taskVars>>

(***************************************************************************)
(* Environment of the calendar                                             *)
(***************************************************************************)

\* GET /auth/google/callback: a successful token exchange writes the token
\* file; a failed one raises HTTP 500 and writes nothing
google_callback(exchangeOk) ==
    /\ tokenFile' = IF exchangeOk THEN "valid" ELSE tokenFile
    /\ UNCHANGED <<request, routeVars, streamVars, tool, remote, now>>
    /\ UNCHANGED <<calCall, memoryVars, taskVars>>

\* the user's calendar changes on Google's side
CalendarChanges(items) ==
    /\ items # remote
    /\ remote' = items
    /\ UNCHANGED <<request, routeVars, streamVars, tokenFile, tool, now>>
    /\ UNCHANGED <<calCall, memoryVars, taskVars>>

\* time passes
Tick(instant) ==
    /\ instant > now
    /\ now' = instant
    /\ UNCHANGED <<request, routeVars, streamVars, tokenFile, tool, remote>>
    /\ UNCHANGED <<calCall, memoryVars, taskVars>>

Next ==
    \/ \E t \in Transcripts, c \in ClassifierOutcomes : NewRequest(t, c)
    \/ \E api \in ApiOutcomes : ProcessTranscript(api)
    \/ \E api \in ApiOutcomes : StreamStart(api)
    \/ \E c \in UpstreamChunks : StreamChunk(c)
    \/ StreamEnd
    \/ StreamFail
    \/ StreamResume
    \/ \E ok \in BOOLEAN : google_callback(ok)
    \/ \E items \in RemoteCalendars : CalendarChanges(items)
    \/ \E instant \in Instants : Tick(instant)

Spec == Init /\ [][Next]_vars

(***************************************************************************)
(* The calendar on its own: requests that the classifier sends to          *)
(* DAILY_SUMMARY with full confidence, and direct calls of                 *)
(* get_calendar_tool().get_today_events(), with each call recorded         *)
(***************************************************************************)

DailySummaryReply ==
    [raises |-> FALSE, hasIntent |-> TRUE, intent |-> "DAILY_SUMMARY",
     confKind |-> "number", conf |-> 100]

DeleteReply ==
    [raises |-> FALSE, hasIntent |-> TRUE, intent |-> "DELETE_CALENDAR_EVENT",
     confKind |-> "number", conf |-> 100]

NoFetch == [done |-> FALSE, at |-> 0, events |-> <<>>]

\* the last successful events().list().execute(): when, and what it gave
LastFetch == IF calCall.op = "none" THEN NoFetch ELSE calCall.fetch

\* what a call finds: the token file, Google's events, the clock, the tool it
\* uses and the last successful fetch; and what it does: whether the
\* constructor raised, whether events().list() was executed, what the
\* calendar hands back to the caller, and the ids passed to delete_event
CalendarCall(op, t, api) ==
    LET used == get_calendar_tool(tool, tokenFile)
        raised == ConstructorRaises(tool, tokenFile, api)
        cacheValid == _is_cache_valid(used, now)
        apiCalled == ~raised /\ ~cacheValid /\ used.service
        got == IF raised THEN <<>>
               ELSE get_today_events(used, now, remote, api.listOk).events
    IN [op |-> op, api |-> api, token |-> tokenFile, items |-> remote,
        clock |-> now,
        before |-> used,
        service |-> used.service,
        cacheValid |-> cacheValid,
        raised |-> raised,
        apiCalled |-> apiCalled,
        got |-> got,
        prevFetch |-> LastFetch,
        fetch |-> IF apiCalled /\ api.listOk
                  THEN [done |-> TRUE, at |-> now, events |-> got]
                  ELSE LastFetch,
        attempt |-> IF op = "delete_event"
                    THEN DeleteEventCalls(t, tool, tokenFile, now, remote, api)
                    ELSE <<>>]

InitCal ==
    /\ transcript = <<>>
    /\ cls = DailySummaryReply
    /\ result = NoResult
    /\ routeCalls = <<>>
    /\ spc = "idle"
    /\ sIntent = "GENERAL_CHAT"
    /\ sConf = 0
    /\ sResp = NoResponse
    /\ chunks = <<>>
    /\ upstream = <<>>
    /\ upFailed = FALSE
    /\ streamCalls = <<>>
    /\ tokenFile = "absent"
    /\ tool = NoTool
    /\ remote \in RemoteCalendars
    /\ now = 0
    /\ calCall = NoCall
    /\ mReady = TRUE
    /\ mStore = EmptyStore
    /\ mCache = EmptyCache
    /\ mCall = NoCall
    /\ tStore = <<>>
    /\ tCall = NoCall

\* process_transcript for a transcript classified DAILY_SUMMARY
DailySummaryRequest(api) ==
    /\ LET r == process_transcript(transcript, DailySummaryReply, tool,
                                   tokenFile, now, remote, api)
       IN /\ result' = [returned |-> TRUE] @@ r.result
          /\ routeCalls' = r.calls
          /\ tool' = r.tool
    /\ cls' = DailySummaryReply
    /\ calCall' = CalendarCall("daily_summary", transcript, api)
    /\ UNCHANGED <<transcript, streamVars, tokenFile, remote, now, memoryVars,
                   taskVars>>

\* process_transcript for a transcript classified DELETE_CALENDAR_EVENT
DeleteEventRequest(t, api) ==
    /\ transcript' = t
    /\ cls' = DeleteReply
    /\ LET r == process_transcript(t, DeleteReply, tool, tokenFile, now,
                                   remote, api)
       IN /\ result' = [returned |-> TRUE] @@ r.result
          /\ routeCalls' = r.calls
          /\ tool' = r.tool
    /\ calCall' = CalendarCall("delete_event", t, api)
    /\ UNCHANGED <<streamVars, tokenFile, remote, now, memoryVars, taskVars>>

\* calendar_tool = get_calendar_tool(); calendar_tool.get_today_events()
GetTodayEvents(api) ==
    /\ ~ConstructorRaises(tool, tokenFile, api)
    /\ tool' = get_today_events(get_calendar_tool(tool, tokenFile), now,
                                remote, api.listOk).tool
    /\ calCall' = CalendarCall("get_today_events", transcript, api)
    /\ UNCHANGED <<request, routeVars, streamVars, tokenFile, remote, now,
                   memoryVars, taskVars>>

NextCal ==
    \/ \E api \in ApiOutcomes : DailySummaryRequest(api)
    \/ \E t \in Transcripts, api \in ApiOutcomes : DeleteEventRequest(t, api)
    \/ \E api \in ApiOutcomes : GetTodayEvents(api)
    \/ \E ok \in BOOLEAN : google_callback(ok)
    \/ \E items \in CalRemoteCalendars : CalendarChanges(items)
    \/ \E instant \in CalInstants : Tick(instant)

SpecCal == InitCal /\ [][NextCal]_vars

(***************************************************************************)
(* MemoryService: the per-user cache in front of the Mem0 store.  A memory *)
(* is represented by its id; mStore[u] is what memory.get_all(user_id=u)   *)
(* returns, mCache[u] the entry of self._cache for u.                      *)
(***************************************************************************)

NoUser == ""

RECURSIVE Without(_, _)
Without(list, m) ==
    IF list = <<>> THEN <<>>
    ELSE IF Head(list) = m THEN Without(Tail(list), m)
    ELSE <<Head(list)>> \o Without(Tail(list), m)

Stored(store, m) == \E u \in Users : \E i \in DOMAIN store[u] : store[u][i] = m

\* _fetch_all_from_qdrant: [] without a Memory object or when get_all raises
_fetch_all_from_qdrant(ready, store, user, storeOk) ==
    IF ~ready THEN <<>>
    ELSE IF storeOk THEN store[user]
    ELSE <<>>

\* variant: force_refresh is ignored
load_user_memoriesIgnoringForce(cache, ready, store, user, force, storeOk) ==
    IF cache[user].cached
    THEN [ret |-> cache[user].memories, cache |-> cache, fetched |-> FALSE]
    ELSE LET memories == _fetch_all_from_qdrant(ready, store, user, storeOk)
         IN [ret |-> memories,
             cache |-> [cache EXCEPT
                          ![user] = [cached |-> TRUE, memories |-> memories]],
             fetched |-> TRUE]

\* load_user_memories: [ret, cache, fetched] = the returned list, self._cache
\* after the call, and whether _fetch_all_from_qdrant was called
load_user_memories(cache, ready, store, user, force, storeOk) ==
    IF ~force /\ cache[user].cached
    THEN [ret |-> cache[user].memories, cache |-> cache, fetched |-> FALSE]
    ELSE LET memories == _fetch_all_from_qdrant(ready, store, user, storeOk)
         IN [ret |-> memories,
             cache |-> [cache EXCEPT
                          ![user] = [cached |-> TRUE, memories |-> memories]],
             fetched |-> TRUE]

\* variant: the entry survives the write
_invalidate_cacheKeeping(cache, user) == cache

_invalidate_cache(cache, user) ==
    [cache EXCEPT ![user] = [cached |-> FALSE, memories |-> <<>>]]

NoPrevCall ==
    [op |-> "none", user |-> NoUser, ok |-> FALSE, hadEntry |-> FALSE,
     fetched |-> FALSE, storeOk |-> FALSE]

\* the call before this one
PrevCall ==
    IF mCall.op = "none" THEN NoPrevCall
    ELSE [op |-> mCall.op, user |-> mCall.user, ok |-> mCall.ok,
          hadEntry |-> mCall.hadEntry, fetched |-> mCall.fetched,
          storeOk |-> mCall.storeOk]

\* the memories removed from the store by delete_memory so far; Mem0 gives
\* every added memory a fresh id, so an id added again names a new memory
Deleted == IF mCall.op = "none" THEN {} ELSE mCall.deleted

\* what a call of the service found (the user's cache entry and stored
\* list, the whole cache, the call before it) and what it handed back
MemoryCall(op, user, memory, force, storeOk, fetched, ret, ok) ==
    [op |-> op, user |-> user, memory |-> memory, force |-> force,
     storeOk |-> storeOk,
     hadEntry |-> IF user \in Users THEN mCache[user].cached ELSE FALSE,
     oldList |-> IF user \in Users THEN mCache[user].memories ELSE <<>>,
     stored |-> IF user \in Users THEN mStore[user] ELSE <<>>,
     cacheBefore |-> mCache,
     prev |-> PrevCall,
     deleted |-> IF op = "delete_memory" /\ ok /\ Stored(mStore, memory)
                 THEN Deleted \cup {memory}
                 ELSE IF op = "add_memory" /\ ok THEN Deleted \ {memory}
                 ELSE Deleted,
     fetched |-> fetched, ret |-> ret, ok |-> ok]

InitMemory ==
    /\ transcript = <<>>
    /\ cls = DailySummaryReply
    /\ result = NoResult
    /\ routeCalls = <<>>
    /\ spc = "idle"
    /\ sIntent = "GENERAL_CHAT"
    /\ sConf = 0
    /\ sResp = NoResponse
    /\ chunks = <<>>
    /\ upstream = <<>>
    /\ upFailed = FALSE
    /\ streamCalls = <<>>
    /\ tokenFile = "absent"
    /\ tool = NoTool
    /\ remote = <<>>
    /\ now = 0
    /\ calCall = NoCall
    /\ mReady \in BOOLEAN
    /\ mStore = EmptyStore
    /\ mCache = EmptyCache
    /\ mCall = NoCall
    /\ tStore = <<>>
    /\ tCall = NoCall

\* load_user_memories(user_id, force_refresh); get_all_memories and
\* preload_user_memories are the calls with force_refresh = False
LoadUserMemories(user, force, storeOk) ==
    /\ LET r == load_user_memories(mCache, mReady, mStore, user, force,
                                   storeOk)
       IN /\ mCache' = r.cache
          /\ mCall' = MemoryCall("load_user_memories", user, "", force,
                                 storeOk, r.fetched, r.ret, TRUE)
    /\ UNCHANGED <<request, routeVars, streamVars, calendarVars, calCall,
                   taskVars,
                   mReady, mStore>>

\* add_memory(user_id, text): Mem0 stores the text under a fresh id
AddMemory(user, memory, storeOk) ==
    /\ ~Stored(mStore, memory)
    /\ IF mReady /\ storeOk
       THEN /\ mStore' = [mStore EXCEPT ![user] = Append(@, memory)]
            /\ mCache' = _invalidate_cache(mCache, user)
       ELSE UNCHANGED <<mStore, mCache>>
    /\ mCall' = MemoryCall("add_memory", user, memory, FALSE, storeOk,
                           FALSE, <<>>, mReady /\ storeOk)
    /\ UNCHANGED <<request, routeVars, streamVars, calendarVars, calCall,
                   taskVars,
                   mReady>>

\* delete_memory(memory_id, user_id = None)
DeleteMemory(memory, user, storeOk) ==
    /\ IF mReady /\ storeOk
       THEN /\ mStore' = [u \in Users |-> Without(mStore[u], memory)]
            /\ mCache' = IF user # NoUser
                         THEN _invalidate_cache(mCache, user)
                         ELSE mCache
       ELSE UNCHANGED <<mStore, mCache>>
    /\ mCall' = MemoryCall("delete_memory", user, memory, FALSE, storeOk,
                           FALSE, <<>>, mReady /\ storeOk)
    /\ UNCHANGED <<request, routeVars, streamVars, calendarVars, calCall,
                   taskVars,
                   mReady>>

\* delete_all_memories(user_id)
DeleteAllMemories(user, storeOk) ==
    /\ IF mReady /\ storeOk
       THEN /\ mStore' = [mStore EXCEPT ![user] = <<>>]
            /\ mCache' = _invalidate_cache(mCache, user)
       ELSE UNCHANGED <<mStore, mCache>>
    /\ mCall' = MemoryCall("delete_all_memories", user, "", FALSE, storeOk,
                           FALSE, <<>>, mReady /\ storeOk)
    /\ UNCHANGED <<request, routeVars, streamVars, calendarVars, calCall,
                   taskVars,
                   mReady>>

NextMemory ==
    \/ \E user \in Users, force \in BOOLEAN, storeOk \in BOOLEAN :
          LoadUserMemories(user, force, storeOk)
    \/ \E user \in Users, memory \in MemoryIds, storeOk \in BOOLEAN :
          AddMemory(user, memory, storeOk)
    \/ \E memory \in MemoryIds, user \in Users \cup {NoUser},
          storeOk \in BOOLEAN :
          DeleteMemory(memory, user, storeOk)
    \/ \E user \in Users, storeOk \in BOOLEAN :
          DeleteAllMemories(user, storeOk)

SpecMemory == InitMemory /\ [][NextMemory]_vars

(***************************************************************************)
(* POST /tasks (create_task).  The task store behind get_task_tool() is    *)
(* known by its interface only: add_task(title, status, due_date) returns  *)
(* the stored task or raises.                                              *)
(***************************************************************************)

\* most tasks the store is let to hold
MaxTasks == 3

DigitChars == <<"0", "1", "2", "3", "4", "5", "6", "7", "8", "9">>

IsDigit(ch) == \E i \in DOMAIN DigitChars : DigitChars[i] = ch

DigitVal(ch) == (CHOOSE i \in DOMAIN DigitChars : DigitChars[i] = ch) - 1

AllDigits(s) == \A i \in DOMAIN s : IsDigit(s[i])

RECURSIVE Num(_)
Num(s) ==
    IF s = <<>> THEN 0
    ELSE 10 * Num(SubSeq(s, 1, Len(s) - 1)) + DigitVal(s[Len(s)])

IsLeap(y) == (y % 4 = 0 /\ y % 100 # 0) \/ y % 400 = 0

DaysInMonth(y, m) ==
    IF m = 2 THEN (IF IsLeap(y) THEN 29 ELSE 28)
    ELSE IF m \in {4, 6, 9, 11} THEN 30
    ELSE 31

NoDate ==
    [year |-> 0, month |-> 0, day |-> 0, hour |-> 0, minute |-> 0,
     second |-> 0]

\* the date part YYYY-MM-DD
ParseDate(s) ==
    LET y == SubSeq(s, 1, 4)
        m == SubSeq(s, 6, 7)
        d == SubSeq(s, 9, 10)
    IN IF /\ Len(s) = 10
          /\ s[5] = "-" /\ s[8] = "-"
          /\ AllDigits(y) /\ AllDigits(m) /\ AllDigits(d)
          /\ Num(y) >= 1
          /\ Num(m) \in 1..12
          /\ Num(d) >= 1 /\ Num(d) <= DaysInMonth(Num(y), Num(m))
       THEN [ok |-> TRUE,
             at |-> [NoDate EXCEPT !.year = Num(y), !.month = Num(m),
                                   !.day = Num(d)]]
       ELSE [ok |-> FALSE, at |-> NoDate]

\* the time part HH[:MM[:SS]]
ParseTime(s) ==
    LET h == SubSeq(s, 1, 2)
        mi == IF Len(s) >= 5 THEN SubSeq(s, 4, 5) ELSE <<"0", "0">>
        se == IF Len(s) >= 8 THEN SubSeq(s, 7, 8) ELSE <<"0", "0">>
    IN IF /\ Len(s) \in {2, 5, 8}
          /\ Len(s) >= 5 => s[3] = ":"
          /\ Len(s) >= 8 => s[6] = ":"
          /\ AllDigits(h) /\ AllDigits(mi) /\ AllDigits(se)
          /\ Num(h) < 24 /\ Num(mi) < 60 /\ Num(se) < 60
       THEN [ok |-> TRUE,
             at |-> [NoDate EXCEPT !.hour = Num(h), !.minute = Num(mi),
                                   !.second = Num(se)]]
       ELSE [ok |-> FALSE, at |-> NoDate]

\* datetime.fromisoformat on YYYY-MM-DD[*HH[:MM[:SS]]], * being any one
\* character; ok = FALSE stands for the ValueError
fromisoformat(s) ==
    IF Len(s) = 10 THEN ParseDate(s)
    ELSE IF Len(s) \in {13, 16, 19}
    THEN LET d == ParseDate(SubSeq(s, 1, 10))
             t == ParseTime(SubSeq(s, 12, Len(s)))
         IN IF d.ok /\ t.ok
            THEN [ok |-> TRUE,
                  at |-> [d.at EXCEPT !.hour = t.at.hour,
                                      !.minute = t.at.minute,
                                      !.second = t.at.second]]
            ELSE [ok |-> FALSE, at |-> NoDate]
    ELSE [ok |-> FALSE, at |-> NoDate]

\* req.due_date: None, "", and strings that parse or do not
DueDates ==
    { [given |-> FALSE, text |-> <<>>],
      [given |-> TRUE, text |-> <<>>],
      [given |-> TRUE, text |-> <<"2","0","2","6","-","0","2","-","0","3">>],
      [given |-> TRUE, text |-> <<"2","0","2","6","-","0","2","-","3","0">>],
      [given |-> TRUE, text |-> <<"2","0","2","6","-","0","2","-","0","3","T","1","0",":","0","0",":","0","0">>],
      [given |-> TRUE, text |-> <<"2","0","2","6","-","0","2","-","0","3","T","2","5",":","0","0",":","0","0">>],
      [given |-> TRUE, text |-> <<"t","o","m","o","r","r","o","w">>] }

CreateTaskRequests ==
    [title : {"Buy milk"}, status : {"pending"}, due_date : DueDates]

NoTask ==
    [id |-> 0, title |-> "", status |-> "",
     due_date |-> [given |-> FALSE, at |-> NoDate]]

\* variant: the catch-all turns the 400 into a 500
create_taskCatchAll(req, store, addOk) ==
    LET parse == req.due_date.given /\ req.due_date.text # <<>>
        parsed == fromisoformat(req.due_date.text)
        due == IF parse THEN [given |-> TRUE, at |-> parsed.at]
               ELSE [given |-> FALSE, at |-> NoDate]
        args == [title |-> req.title, status |-> req.status,
                 due_date |-> due]
        task == [id |-> Len(store) + 1] @@ args
    IN IF parse /\ ~parsed.ok
       THEN [status |-> 500, detail |-> "Failed to create task",
             body |-> NoTask, store |-> store, addCalls |-> <<>>]
       ELSE IF ~addOk
       THEN [status |-> 500, detail |-> "Failed to create task",
             body |-> NoTask, store |-> store, addCalls |-> <<args>>]
       ELSE [status |-> 201, detail |-> "", body |-> task,
             store |-> Append(store, task), addCalls |-> <<args>>]

\* create_task: the HTTP response, the store afterwards and the calls of
\* add_task; addOk says whether add_task returns
create_task(req, store, addOk) ==
    LET parse == req.due_date.given /\ req.due_date.text # <<>>
        parsed == fromisoformat(req.due_date.text)
        due == IF parse THEN [given |-> TRUE, at |-> parsed.at]
               ELSE [given |-> FALSE, at |-> NoDate]
        args == [title |-> req.title, status |-> req.status,
                 due_date |-> due]
        task == [id |-> Len(store) + 1] @@ args
    IN IF parse /\ ~parsed.ok
       THEN [status |-> 400,
             detail |-> "Invalid due_date format. Use ISO format (YYYY-MM-DDTHH:MM:SS)",
             body |-> NoTask, store |-> store, addCalls |-> <<>>]
       ELSE IF ~addOk
       THEN [status |-> 500, detail |-> "Failed to create task",
             body |-> NoTask, store |-> store, addCalls |-> <<args>>]
       ELSE [status |-> 201, detail |-> "", body |-> task,
             store |-> Append(store, task), addCalls |-> <<args>>]

InitTasks ==
    /\ transcript = <<>>
    /\ cls = DailySummaryReply
    /\ result = NoResult
    /\ routeCalls = <<>>
    /\ spc = "idle"
    /\ sIntent = "GENERAL_CHAT"
    /\ sConf = 0
    /\ sResp = NoResponse
    /\ chunks = <<>>
    /\ upstream = <<>>
    /\ upFailed = FALSE
    /\ streamCalls = <<>>
    /\ tokenFile = "absent"
    /\ tool = NoTool
    /\ remote = <<>>
    /\ now = 0
    /\ calCall = NoCall
    /\ mReady = TRUE
    /\ mStore = EmptyStore
    /\ mCache = EmptyCache
    /\ mCall = NoCall
    /\ tStore = <<>>
    /\ tCall = NoCall

\* POST /tasks
CreateTask(req, addOk) ==
    /\ Len(tStore) < MaxTasks
    /\ LET r == create_task(req, tStore, addOk)
       IN /\ tStore' = r.store
          /\ tCall' = [op |-> "create_task", request |-> req,
                       addOk |-> addOk, storeBefore |-> tStore,
                       status |-> r.status, detail |-> r.detail,
                       body |-> r.body, addCalls |-> r.addCalls]
    /\ UNCHANGED <<request, routeVars, streamVars, calendarVars, calCall,
                   memoryVars>>

NextTasks ==
    \E req \in CreateTaskRequests, addOk \in BOOLEAN : CreateTask(req, addOk)

SpecTasks == InitTasks /\ [][NextTasks]_vars

(***************************************************************************)
(* Properties                                                              *)
(***************************************************************************)

\* the classifier returned a dict whose confidence is a number
NumericReply == ~cls.raises /\ cls.confKind = "number"

\* the classifier returned a dict whose confidence can be compared
ComparableReply == ~cls.raises /\ cls.confKind # "malformed"

\* the documented mapping from intent to response type
TypeOfIntent(i) ==
    CASE i = "GET_WEATHER"           -> "weather"
      [] i = "ADD_TASK"              -> "task"
      [] i = "DAILY_SUMMARY"         -> "summary"
      [] i = "DELETE_CALENDAR_EVENT" -> "calendar_delete"
      [] i = "LEARN"                 -> "educational"
      [] i = "GENERAL_CHAT"          -> "conversation"

\* the effective intent of a request: GENERAL_CHAT after a failure, below
\* 0.7 and for a label without handler, the classified label otherwise
EffectiveIntent ==
    IF ~ComparableReply THEN "GENERAL_CHAT"
    ELSE IF ClassifiedConfidence(cls) < 70 THEN "GENERAL_CHAT"
    ELSE IF ClassifiedIntent(cls) \in Intents THEN ClassifiedIntent(cls)
    ELSE "GENERAL_CHAT"

\* the intent the stream branches on and tags its chunks with
EffectiveLabel ==
    IF ClassifiedConfidence(cls) < 70 THEN "GENERAL_CHAT"
    ELSE ClassifiedIntent(cls)

HandlerNames == {handlers[i] : i \in Intents}

\* C1: whenever the classifier's confidence is below 0.7, the intent that
\* process_transcript reports is GENERAL_CHAT, whatever the label was.
C1_LowConfidenceReportsGeneralChat ==
    (result.returned /\ NumericReply /\ cls.conf < 70)
        => result.intent = "GENERAL_CHAT"

\* C2: with confidence >= 0.7 (0.7 included) and a label among the six
\* intents, process_transcript reports that label and the response type is
\* the one mapped to it.
C2_ConfidentIntentIsDispatched ==
    (result.returned /\ NumericReply /\ cls.conf >= 70
       /\ cls.hasIntent /\ cls.intent \in Intents)
        => /\ result.intent = cls.intent
           /\ result.handler_response.type = TypeOfIntent(cls.intent)

C2_Witness ==
    /\ result.returned /\ NumericReply /\ cls.conf = 70
    /\ cls.hasIntent /\ cls.intent = "DELETE_CALENDAR_EVENT"
    /\ result.handler_response.type = "calendar_delete"

\* C3: the response type of every process_transcript result is the type of
\* the effective intent; below 0.7 it is "conversation", never the type of
\* the classified intent.
C3_TypeFollowsEffectiveIntent ==
    result.returned
        => /\ result.handler_response.type = TypeOfIntent(EffectiveIntent)
           /\ (NumericReply /\ cls.conf < 70)
                 => result.handler_response.type = "conversation"

C3_Witness ==
    /\ result.returned /\ NumericReply /\ cls.conf = 69
    /\ cls.hasIntent /\ cls.intent = "GET_WEATHER"
    /\ result.handler_response.type = "conversation"

\* C4: when the classifier raises, process_transcript raises nothing and
\* returns intent GENERAL_CHAT, confidence 0.0 and a "conversation" response.
C4_ClassifierFailureIsRecovered ==
    (result.returned /\ cls.raises)
        => /\ ~result.raised
           /\ result.intent = "GENERAL_CHAT"
           /\ result.confidence = 0
           /\ result.handler_response.type = "conversation"

C4_Witness ==
    /\ result.returned /\ cls.raises
    /\ routeCalls = <<"classify_intent", "_handle_general_chat">>

\* C5: on every path of process_transcript the transcript field of the
\* result is the input transcript, the empty string included.
C5_TranscriptPreserved ==
    result.returned => result.transcript = transcript

C5_Witness ==
    /\ result.returned /\ ~cls.raises /\ ComparisonRaises(cls)
    /\ transcript # <<>> /\ Head(transcript) = " "
    /\ result.transcript = transcript

\* C6: a label outside the six intents is dispatched to the GENERAL_CHAT
\* handler at any confidence: the response type is "conversation" and no
\* other handler is invoked.
C6_UnknownLabelGoesToGeneralChat ==
    (result.returned /\ ~cls.raises /\ cls.hasIntent
       /\ cls.intent \notin Intents)
        => /\ result.handler_response.type = "conversation"
           /\ {routeCalls[i] : i \in DOMAIN routeCalls} \cap HandlerNames
                 = {"_handle_general_chat"}

C6_Witness ==
    /\ result.returned /\ NumericReply /\ cls.conf = 100
    /\ cls.hasIntent /\ cls.intent = "PLAY_MUSIC"
    /\ result.handler_response.type = "conversation"

\* C7: when the stream's effective intent is not GENERAL_CHAT and the
\* handler returns, the stream has yielded exactly one chunk, the handler
\* response's message tagged (intent, confidence), and only ends after it.
C7_StructuredIntentYieldsOneChunk ==
    (spc # "idle" /\ ComparableReply /\ EffectiveLabel # "GENERAL_CHAT")
        => /\ spc \in {"last", "done"}
           /\ sResp # NoResponse
           /\ chunks = <<[text |-> sResp.message,
                          intent |-> EffectiveLabel,
                          confidence |-> ClassifiedConfidence(cls),
                          by |-> "handler"]>>

C7_Witness ==
    /\ spc = "done" /\ ComparableReply /\ EffectiveLabel = "ADD_TASK"
    /\ Len(chunks) = 1
    /\ chunks[1].text.args = <<<<"A", "b">>>>

\* C8: when the stream's effective intent is GENERAL_CHAT and the upstream
\* stream has not failed, the chunks yielded are exactly the chunks the
\* upstream stream produced, in order, each tagged (GENERAL_CHAT,
\* classifier confidence).
C8_UpstreamChunksAreRelayed ==
    (spc \in {"streaming", "done"} /\ ComparableReply
       /\ EffectiveLabel = "GENERAL_CHAT" /\ ~upFailed)
        => /\ Len(chunks) = Len(upstream)
           /\ \A i \in DOMAIN chunks :
                 /\ chunks[i].text = upstream[i]
                 /\ chunks[i].intent = "GENERAL_CHAT"
                 /\ chunks[i].confidence = ClassifiedConfidence(cls)

C8_Witness ==
    /\ spc = "done" /\ NumericReply /\ cls.conf = 69 /\ ~upFailed
    /\ cls.hasIntent /\ cls.intent = "LEARN"
    /\ Len(upstream) = 2 /\ upstream[1] # upstream[2]
    /\ Len(chunks) = 2

\* C9: when the classifier, the dispatch or the upstream stream raises, the
\* stream yields exactly one fallback chunk, the apology tagged
\* (GENERAL_CHAT, 0.0), as its last chunk, and ends without raising.
C9_FailureYieldsOneApology ==
    (spc # "idle" /\ (cls.raises \/ ComparisonRaises(cls) \/ upFailed))
        => /\ spc \in {"last", "done"}
           /\ chunks # <<>>
           /\ chunks[Len(chunks)] =
                 [text |-> Lit("I'm having trouble processing that right now."),
                  intent |-> "GENERAL_CHAT", confidence |-> 0,
                  by |-> "except"]
           /\ Cardinality({i \in DOMAIN chunks : chunks[i].by = "except"}) = 1

C9_Witness ==
    /\ spc = "done" /\ upFailed
    /\ Len(chunks) = 3
    /\ chunks[1].by = "upstream" /\ chunks[3].by = "except"

\* C10: for the same transcript and classifier output, the intent in the
\* process_transcript result equals the intent tag of every chunk of
\* process_transcript_stream.
C10_RouteAndStreamAgreeOnIntent ==
    (result.returned /\ chunks # <<>>)
        => \A i \in DOMAIN chunks : chunks[i].intent = result.intent

\* number of times callee occurs in a call log
Count(log, callee) == Cardinality({i \in DOMAIN log : log[i] = callee})

\* C11: in the stream, a label outside the six intents with confidence
\* >= 0.7 is served like a low-confidence request: its chunks come from the
\* text-generation stream and are tagged GENERAL_CHAT.
C11_UnknownLabelStreamsLikeLowConfidence ==
    (spc # "idle" /\ NumericReply /\ cls.conf >= 70
       /\ cls.hasIntent /\ cls.intent \notin Intents)
        => /\ Count(streamCalls, "generate_response_stream") = 1
           /\ \A i \in DOMAIN chunks :
                 /\ chunks[i].intent = "GENERAL_CHAT"
                 /\ chunks[i].by # "handler"

\* C12: the confidence of every process_transcript result lies in
\* [0.0, 1.0], whether the classifier gave a confidence in [0, 1], gave no
\* confidence key, or failed.
C12_ConfidenceInUnitInterval ==
    (result.returned /\ (cls.raises \/ cls.confKind \in {"number", "absent"}))
        => (0 <= result.confidence /\ result.confidence <= 100)

C12_Witness ==
    /\ result.returned /\ ~cls.raises /\ cls.confKind = "absent"
    /\ result.confidence = 50

\* C13: when classification and the handler succeed, the confidence of the
\* result is the classifier's confidence, also when the threshold sent the
\* request to GENERAL_CHAT.
C13_ConfidenceIsRaw ==
    (result.returned /\ NumericReply) => result.confidence = cls.conf

C13_Witness ==
    /\ result.returned /\ NumericReply /\ cls.conf = 69
    /\ cls.hasIntent /\ cls.intent = "LEARN"
    /\ result.confidence = 69
    /\ result.handler_response.type = "conversation"

C15_NothingIsRetried ==
    /\ result.returned
         => /\ Count(routeCalls, "classify_intent") = 1
            /\ Count(routeCalls, "_route_to_handler") <= 1
            /\ \A h \in HandlerNames : Count(routeCalls, h) <= 1
    /\ spc # "idle"
         => /\ Count(streamCalls, "classify_intent") = 1
            /\ Count(streamCalls, "_route_to_handler") <= 1
            /\ Count(streamCalls, "generate_response_stream") <= 1
            /\ \A h \in HandlerNames : Count(streamCalls, h) <= 1

C15_Witness ==
    /\ result.returned /\ cls.raises /\ spc = "done"
    /\ Count(routeCalls, "classify_intent") = 1
    /\ streamCalls = <<"classify_intent">>

ApiUp == [buildOk |-> TRUE, listOk |-> TRUE]

EventKeys == {"id", "summary", "start", "end", "location"}

\* C16: the DAILY_SUMMARY handler always returns a "summary" response: the
\* fixed mock payload when the calendar raised or returned no events, and
\* otherwise source "google_calendar" with the returned list as events and
\* its length as event_count.
C16_DailySummaryDegradesToMock ==
    calCall.op = "daily_summary"
        => LET resp == result.handler_response
           IN /\ resp.type = "summary"
              /\ (calCall.raised \/ calCall.got = <<>>)
                    => /\ resp.data.source = "mock_data"
                       /\ resp.data.tasks_completed = 5
                       /\ resp.message =
                            Lit("Today you completed 5 tasks and attended 2 meetings. Great progress!")
              /\ (~calCall.raised /\ calCall.got # <<>>)
                    => /\ resp.data.source = "google_calendar"
                       /\ resp.data.events = calCall.got
                       /\ resp.data.event_count = Len(calCall.got)

C16_Witness ==
    /\ calCall.op = "daily_summary" /\ calCall.raised
    /\ result.handler_response.data.source = "mock_data"

\* C17: whenever process_transcript routes to the DAILY_SUMMARY handler, the
\* response type is "summary" and its data has the key tasks_completed.
C17_DailySummaryHasTasksCompleted ==
    (result.returned /\ Count(routeCalls, "_handle_daily_summary") = 1)
        => /\ result.handler_response.type = "summary"
           /\ "tasks_completed" \in DOMAIN result.handler_response.data

\* C18: once the OAuth callback has stored a token, a DAILY_SUMMARY request
\* made while Google is reachable, today has events and no fetched list is
\* still cached returns them with source "google_calendar".
C18_ConnectedCalendarIsUsed ==
    (calCall.op = "daily_summary" /\ calCall.token = "valid"
       /\ calCall.api = ApiUp /\ calCall.items # <<>> /\ ~calCall.cacheValid)
        => result.handler_response.data.source = "google_calendar"

\* C19: get_today_events returns the empty list when the tool has no
\* service and when the API call fails, and otherwise a list of events that
\* each have exactly the keys id, summary, start, end, location.
C19_GetTodayEventsIsTotal ==
    calCall.op = "get_today_events"
        => /\ ~calCall.service => calCall.got = <<>>
           /\ (calCall.service /\ ~calCall.cacheValid /\ ~calCall.api.listOk)
                 => calCall.got = <<>>
           /\ \A i \in DOMAIN calCall.got :
                 DOMAIN calCall.got[i] = EventKeys

C19_Witness ==
    /\ calCall.op = "get_today_events"
    /\ calCall.service /\ ~calCall.cacheValid /\ ~calCall.api.listOk
    /\ tool.cached /\ tool.events # <<>>
    /\ calCall.got = <<>>

\* C20: load_user_memories with force_refresh = False and a cache entry
\* returns the cached list without fetching and leaves the entry alone; with
\* force_refresh = True or no entry it fetches, the fetched list becomes the
\* user's cache entry and is returned (the store's list when the store
\* answers).
C20_LoadUsesCacheUnlessForced ==
    mCall.op = "load_user_memories"
        => LET entry == mCache[mCall.user]
           IN IF ~mCall.force /\ mCall.hadEntry
              THEN /\ ~mCall.fetched
                   /\ mCall.ret = mCall.oldList
                   /\ entry = [cached |-> TRUE, memories |-> mCall.oldList]
              ELSE /\ mCall.fetched
                   /\ entry = [cached |-> TRUE, memories |-> mCall.ret]
                   /\ (mReady /\ mCall.storeOk) => mCall.ret = mCall.stored

C20_Witness ==
    /\ mCall.op = "load_user_memories"
    /\ mCall.force /\ mCall.hadEntry
    /\ mCall.oldList # mCall.stored
    /\ mCall.ret = mCall.stored

\* the handler's test of one event against the transcript
SummaryInTranscript(e, t) ==
    /\ Lower(e.summary) # <<>>
    /\ Contains(Lower(t), Lower(e.summary))

TroubleDeleting == Lit("I had trouble deleting that event. Please try again.")

\* C21: a DELETE_CALENDAR_EVENT request always ends in a response of type
\* "calendar_delete" with data and message, returned by the handler itself
\* (the orchestrator's fallback is not taken), whatever the calendar does.
C21_DeleteAlwaysAnswers ==
    calCall.op = "delete_event"
        => /\ result.returned
           /\ result.intent = "DELETE_CALENDAR_EVENT"
           /\ routeCalls[Len(routeCalls)] = "_handle_delete_calendar_event"
           /\ DOMAIN result.handler_response = {"type", "data", "message"}
           /\ result.handler_response.type = "calendar_delete"

C21_Witness ==
    /\ calCall.op = "delete_event" /\ calCall.raised
    /\ result.handler_response.type = "calendar_delete"
    /\ result.handler_response.message = TroubleDeleting

\* C22: when an event of today matches the transcript, the handler's call
\* of delete_event returns and the response reports the deletion of the
\* matched event (data.deleted_event is its summary).
C22_MatchedEventIsDeleted ==
    (calCall.op = "delete_event" /\ calCall.attempt # <<>>)
        => /\ "deleted_event" \in DOMAIN result.handler_response.data
           /\ \E i \in DOMAIN calCall.got :
                 /\ calCall.got[i].id = calCall.attempt[1]
                 /\ result.handler_response.data.deleted_event =
                       calCall.got[i].summary

\* C29: one DELETE_CALENDAR_EVENT request reaches delete_event at most once,
\* and only with the id of the first listed event whose summary matches the
\* transcript; with no events or no match it does not reach it.
C29_OnlyFirstMatchIsDeleted ==
    calCall.op = "delete_event"
        => LET matches == {i \in DOMAIN calCall.got :
                              SummaryInTranscript(calCall.got[i], transcript)}
           IN /\ Len(calCall.attempt) <= 1
              /\ matches = {} => calCall.attempt = <<>>
              /\ calCall.attempt # <<>>
                    => \E i \in matches :
                          /\ \A j \in matches : i <= j
                          /\ calCall.attempt = <<calCall.got[i].id>>

C29_Witness ==
    /\ calCall.op = "delete_event"
    /\ calCall.items = <<RawEmpty, RawB, RawAb>>
    /\ Len(calCall.got) = 3
    /\ calCall.attempt = <<"e1">>

\* C23: a get_today_events call made less than 300 seconds after the last
\* successful fetch returns the list of that fetch without executing
\* events().list(); a call made 300 seconds or more after it executes
\* events().list() again.
C23_CacheLivesFiveMinutes ==
    (calCall.op # "none" /\ calCall.prevFetch.done)
        => IF calCall.clock - calCall.prevFetch.at < 300
           THEN /\ ~calCall.apiCalled
                /\ calCall.got = calCall.prevFetch.events
           ELSE calCall.apiCalled

C23_Witness ==
    /\ calCall.op = "get_today_events"
    /\ calCall.prevFetch.done /\ calCall.prevFetch.at = 0
    /\ calCall.clock = 299
    /\ calCall.items = <<>>
    /\ calCall.got # <<>>
    /\ ~calCall.apiCalled

\* C30: a get_today_events call that does not complete a fetch (the tool is
\* unauthorized, the cache is still valid, or events().list() fails) leaves
\* the cached list and the cache timestamp as they were.
C30_OnlySuccessfulFetchWritesCache ==
    (calCall.op # "none" /\ ~(calCall.apiCalled /\ calCall.api.listOk))
        => /\ tool.cached = calCall.before.cached
           /\ tool.events = calCall.before.events
           /\ tool.ts = calCall.before.ts

C30_Witness ==
    /\ calCall.op = "get_today_events"
    /\ calCall.apiCalled /\ ~calCall.api.listOk
    /\ calCall.before.cached /\ calCall.before.events # <<>>
    /\ tool.events = calCall.before.events
    /\ tool.ts = calCall.before.ts

MemoryWrites == {"add_memory", "delete_all_memories"}

\* C24: a successful add_memory or delete_all_memories leaves the user
\* without a cache entry, and a get_all_memories for that user that comes
\* next fetches from the store; a failed one returns its failure value and
\* leaves the whole cache as it was.
C24_WritesInvalidateTheCache ==
    /\ mCall.op \in MemoryWrites
          => IF mCall.ok THEN ~mCache[mCall.user].cached
             ELSE mCache = mCall.cacheBefore
    /\ (mCall.op = "load_user_memories" /\ ~mCall.force
          /\ mCall.prev.op \in MemoryWrites /\ mCall.prev.ok
          /\ mCall.prev.user = mCall.user)
          => /\ mCall.fetched
             /\ (mReady /\ mCall.storeOk) => mCall.ret = mCall.stored

C24_Witness ==
    /\ mCall.op = "load_user_memories" /\ ~mCall.force
    /\ mCall.prev.op = "add_memory" /\ mCall.prev.ok
    /\ mCall.prev.user = mCall.user /\ mCall.prev.hadEntry
    /\ mCall.fetched /\ Len(mCall.ret) = 2

\* C27: get_all_memories never returns a memory that delete_memory has
\* removed from the store, whether or not delete_memory was given a user_id.
C27_DeletedMemoryIsNotReturned ==
    (mCall.op = "load_user_memories" /\ ~mCall.force)
        => \A i \in DOMAIN mCall.ret : mCall.ret[i] \notin mCall.deleted

\* C28: after a load_user_memories whose fetch failed, a get_all_memories
\* for the same user that comes next, with the store reachable, returns the
\* store's memories.
C28_FailedFetchIsNotCached ==
    (mCall.op = "load_user_memories" /\ ~mCall.force
       /\ mReady /\ mCall.storeOk
       /\ mCall.prev.op = "load_user_memories"
       /\ mCall.prev.user = mCall.user
       /\ mCall.prev.fetched /\ ~mCall.prev.storeOk)
        => mCall.ret = mCall.stored

\* C26 as stated: in one run of process_transcript_stream all yielded
\* chunks carry the same (intent, confidence) tag.
C26_AllChunksShareOneTag ==
    \A i, j \in DOMAIN chunks :
        /\ chunks[i].intent = chunks[j].intent
        /\ chunks[i].confidence = chunks[j].confidence

\* C26, amended: the chunks yielded by the try body (relayed upstream chunks
\* or the handler's message) all carry the tag (effective intent, classifier
\* confidence), and the fallback chunk of the except branch carries
\* (GENERAL_CHAT, 0.0); a run has two tags only when its upstream stream
\* failed after chunks had been relayed.
C26_ChunksShareTagUpToFallback ==
    /\ \A i \in DOMAIN chunks :
          IF chunks[i].by = "except"
          THEN /\ chunks[i].intent = "GENERAL_CHAT"
               /\ chunks[i].confidence = 0
               /\ i = Len(chunks)
          ELSE /\ chunks[i].intent = sIntent
               /\ chunks[i].confidence = sConf
    /\ ~C26_AllChunksShareOneTag
          => /\ upFailed
             /\ Len(chunks) >= 2

C26_Witness ==
    /\ spc = "done" /\ upFailed
    /\ Len(chunks) = 3
    /\ chunks[1].confidence = 69 /\ chunks[2].confidence = 69
    /\ chunks[3].confidence = 0

====
